---- MODULE Spec2Model ----
(***************************************************************************)
(* go-proxyproto: a net.Listener / net.Conn wrapper that recovers the      *)
(* client address from a PROXY protocol header.                            *)
(*                                                                         *)
(* The sources hold two wrappers of the same package:                      *)
(*   "conn"  src/protocol.go        v1 only; newConn decodes inside Accept *)
(*                                  and Read decodes again under sync.Once *)
(*   "Conn"  src/unnamed/part_000   decodes lazily under sync.Once through *)
(*                                  proto.ReadTimeout (v1 and v2)          *)
(* One connection is modelled: the peer's writes arrive one at a time,     *)
(* goroutines call Read and RemoteAddr on the wrapper.                     *)
(* Bytes are their integer values (ASCII for text).                        *)
(***************************************************************************)
EXTENDS Integers, Sequences, FiniteSets, TLC

\* ---------------------------------------------------------------- bounds
\* goroutines calling Read / RemoteAddr on the one connection
NumCallers == 2
\* len(b) of the short buffer a caller passes to Read
MaxReadLen == 3
\* calls of Write, Close, LocalAddr and the deadline setters followed
MaxCalls == 2
\* raw connections the underlying listener hands out
MaxRaw == 3

\* ------------------------------------------------------- byte sequences
\* '\r', '\n' and ' '
CR == 13
LF == 10
SP == 32

\* "PROXY "  (protocol.go:19)
prefix == <<80, 82, 79, 88, 89, 32>>
\* the v1 signature of the header codec: the literal bytes "PROXY "
SIGV1 == <<80, 82, 79, 88, 89, 32>>
\* the v2 signature: \r\n\r\n\0\r\nQUIT\n
SIGV2 == <<13, 10, 13, 10, 0, 13, 10, 81, 85, 73, 84, 10>>

sTCP4 == <<84, 67, 80, 52>>
sTCP6 == <<84, 67, 80, 54>>

Min(a, b) == IF a < b THEN a ELSE b
Max(a, b) == IF a > b THEN a ELSE b

Take(s, n) == SubSeq(s, 1, Min(n, Len(s)))
Drop(s, n) == SubSeq(s, n + 1, Len(s))

\* bytes.Equal(inp, sig[:Len(inp)])
IsPrefixOf(p, s) == Len(p) <= Len(s) /\ SubSeq(s, 1, Len(p)) = p

\* index of the first b in s, 0 when absent
RECURSIVE IndexFrom(_, _, _)
IndexFrom(s, b, i) ==
    IF i > Len(s) THEN 0
    ELSE IF s[i] = b THEN i
    ELSE IndexFrom(s, b, i + 1)

IndexByte(s, b) == IndexFrom(s, b, 1)

\* strings.Split(s, sep) for a one-byte separator
RECURSIVE Split(_, _)
SplitAt(s, sep, i) ==
    IF i = 0 THEN <<s>>
    ELSE <<SubSeq(s, 1, i - 1)>> \o Split(Drop(s, i), sep)

Split(s, sep) == SplitAt(s, sep, IndexByte(s, sep))

IsDigit(b) == b >= 48 /\ b <= 57

AllDigits(s) == \A i \in 1..Len(s) : IsDigit(s[i])

\* the value of a string of decimal digits
RECURSIVE DecVal(_)
DecVal(s) ==
    IF Len(s) = 0 THEN 0
    ELSE 10 * DecVal(SubSeq(s, 1, Len(s) - 1)) + (s[Len(s)] - 48)

IsHex(b) == (b >= 48 /\ b <= 57) \/ (b >= 97 /\ b <= 102) \/ (b >= 65 /\ b <= 70)

HexDigit(b) == IF b <= 57 THEN b - 48 ELSE IF b >= 97 THEN b - 87 ELSE b - 55

RECURSIVE HexVal(_)
HexVal(s) ==
    IF Len(s) = 0 THEN 0
    ELSE 16 * HexVal(SubSeq(s, 1, Len(s) - 1)) + HexDigit(s[Len(s)])

\* a nil *net.TCPAddr / net.IP / *proto.Header
Nil == <<>>

\* ------------------------------------------------------ net.ParseIP, Atoi
\* one dotted-quad part: 1 to 3 digits, at most 255
IsV4Part(s) == Len(s) >= 1 /\ Len(s) <= 3 /\ AllDigits(s) /\ DecVal(s) <= 255

V4OfParts(parts) ==
    IF Len(parts) = 4 /\ \A i \in 1..4 : IsV4Part(parts[i])
    THEN [i \in 1..4 |-> DecVal(parts[i])]
    ELSE Nil

\* an IPv4 literal a.b.c.d as its 4 bytes, Nil when malformed
parseIPv4(s) == V4OfParts(Split(s, 46))

IsV6Group(s) == Len(s) >= 1 /\ Len(s) <= 4 /\ \A i \in 1..Len(s) : IsHex(s[i])

WordBytes(v) == <<v \div 256, v % 256>>

RECURSIVE GroupBytes(_)
GroupBytes(gs) ==
    IF Len(gs) = 0 THEN <<>>
    ELSE WordBytes(HexVal(gs[1])) \o GroupBytes(Tail(gs))

\* the groups around the "::" at parts[g], zero groups in its place
V6Fill(parts, g) ==
    GroupBytes(SubSeq(parts, 1, g - 1) \o [i \in 1..(9 - Len(parts)) |-> <<48>>]
               \o SubSeq(parts, g + 1, Len(parts)))

V6Gaps(parts, gaps) ==
    IF \E i \in 1..Len(parts) : parts[i] # <<>> /\ ~IsV6Group(parts[i])
    THEN Nil
    ELSE IF gaps = {}
    THEN IF Len(parts) = 8 THEN GroupBytes(parts) ELSE Nil
    ELSE IF Cardinality(gaps) > 1 \/ Len(parts) > 8 THEN Nil
    ELSE V6Fill(parts, CHOOSE i \in gaps : TRUE)

V6Parts(parts) == V6Gaps(parts, {i \in 1..Len(parts) : parts[i] = <<>>})

\* a leading or trailing "::" splits into two empty parts: keep one
V6Trim(raw, lead, trail) ==
    IF \/ ~lead /\ raw[1] = <<>>
       \/ ~trail /\ raw[Len(raw)] = <<>>
       \/ lead /\ trail /\ Len(raw) = 2
    THEN Nil
    ELSE V6Parts(SubSeq(raw, IF lead THEN 2 ELSE 1,
                        IF trail /\ Len(raw) >= 3 THEN Len(raw) - 1 ELSE Len(raw)))

V6Raw(raw) ==
    V6Trim(raw,
           Len(raw) >= 2 /\ raw[1] = <<>> /\ raw[2] = <<>>,
           Len(raw) >= 2 /\ raw[Len(raw)] = <<>> /\ raw[Len(raw) - 1] = <<>>)

\* an IPv6 literal (hex groups, at most one "::") as its 16 bytes, Nil when
\* malformed; the embedded dotted-quad tail and zones are not modelled
parseIPv6(s) == V6Raw(Split(s, 58))

PickIP(s, d, c) ==
    IF d = 0 /\ c = 0 THEN Nil
    ELSE IF c = 0 \/ (d # 0 /\ d < c) THEN parseIPv4(s)
    ELSE parseIPv6(s)

\* net.ParseIP: the first '.' or ':' picks the family; Nil when neither parses
ParseIP(s) == PickIP(s, IndexByte(s, 46), IndexByte(s, 58))

AtoiDigits(neg, digits) ==
    IF Len(digits) = 0 \/ ~AllDigits(digits)
    THEN [ok |-> FALSE, val |-> 0]
    ELSE [ok |-> TRUE, val |-> IF neg THEN 0 - DecVal(digits) ELSE DecVal(digits)]

\* strconv.Atoi: an optional sign and at least one decimal digit
Atoi(s) ==
    IF Len(s) >= 1 /\ (s[1] = 43 \/ s[1] = 45)
    THEN AtoiDigits(s[1] = 45, Tail(s))
    ELSE AtoiDigits(FALSE, s)

\* &net.TCPAddr{IP: ip, Port: port}
TCPAddr(ip, port) == [net |-> "tcp", IP |-> ip, Port |-> port]
UDPAddr(ip, port) == [net |-> "udp", IP |-> ip, Port |-> port]

\* ------------------------------------------------- protocol.go: checkPrefix
\* What conn.checkPrefix does on a bufio.Reader holding (or able to fetch)
\* the bytes `avail`; `rderr` says that a read of the socket past them
\* fails (EOF, closed) rather than blocks.
\*   st    "wait" (blocked in Peek / ReadString), "nil" or "err"
\*   n     bytes consumed from the reader
\*   close p.conn.Close() was called
\*   src   the p.srcAddr assigned (Nil: not assigned); dst likewise
\*   sig   the whole prefix matched
CpRes(st, n, close, src, dst, sig) ==
    [st |-> st, n |-> n, close |-> close, src |-> src, dst |-> dst, sig |-> sig]

\* protocol.go:173-199: the two addresses
cpAddrs(n, sip, sport, dip, dport) ==
    IF sip = Nil \/ ~sport.ok
    THEN CpRes("err", n, TRUE, Nil, Nil, TRUE)
    ELSE IF dip = Nil \/ ~dport.ok
    THEN CpRes("err", n, TRUE, TCPAddr(sip, sport.val), Nil, TRUE)
    ELSE CpRes("nil", n, FALSE, TCPAddr(sip, sport.val), TCPAddr(dip, dport.val), TRUE)

\* the field count tested as "at least 6" instead of "exactly 6"
cpParts_atLeastSix(n, parts) ==
    IF Len(parts) < 6 THEN CpRes("err", n, TRUE, Nil, Nil, TRUE)
    ELSE IF parts[2] # sTCP4 /\ parts[2] # sTCP6
    THEN CpRes("err", n, TRUE, Nil, Nil, TRUE)
    ELSE cpAddrs(n, ParseIP(parts[3]), Atoi(parts[5]), ParseIP(parts[4]), Atoi(parts[6]))

\* protocol.go:157-171: the field count and the address type
cpParts(n, parts) ==
    IF Len(parts) # 6 THEN CpRes("err", n, TRUE, Nil, Nil, TRUE)
    ELSE IF parts[2] # sTCP4 /\ parts[2] # sTCP6
    THEN CpRes("err", n, TRUE, Nil, Nil, TRUE)
    ELSE cpAddrs(n, ParseIP(parts[3]), Atoi(parts[5]), ParseIP(parts[4]), Atoi(parts[6]))

\* protocol.go:154-158: strip two bytes, split on spaces
checkPrefixLine(line) ==
    cpParts(Len(line), Split(SubSeq(line, 1, Len(line) - 2), SP))

\* protocol.go:147-152: ReadString('\n'), j the index of the first '\n'
cpReadString(avail, rderr, j) ==
    IF j = 0
    THEN IF rderr THEN CpRes("err", Len(avail), TRUE, Nil, Nil, TRUE)
         ELSE CpRes("wait", 0, FALSE, Nil, Nil, TRUE)
    ELSE checkPrefixLine(SubSeq(avail, 1, j))

checkPrefix(avail, rderr) ==
    IF \E i \in 1..Min(Len(avail), Len(prefix)) : avail[i] # prefix[i]
    THEN CpRes("nil", 0, FALSE, Nil, Nil, FALSE)
    ELSE IF Len(avail) < Len(prefix)
    THEN IF rderr THEN CpRes("err", 0, FALSE, Nil, Nil, FALSE)
         ELSE CpRes("wait", 0, FALSE, Nil, Nil, FALSE)
    ELSE cpReadString(avail, rderr, IndexByte(avail, LF))

\* ---------------------------------------- the header codec (proto.Read)
\* The codec proto.ReadTimeout wraps lives outside the sources; it is
\* modelled from the specification's section 4.1 (Detect-and-parse).  It is
\* handed the bufio.Reader alone, so it cannot close the connection.
\*   st   "wait" (blocked for bytes), "nohdr" (ErrNoProxyProtocol),
\*        "ok" (a header) or "fatal" (any other error)
\*   n    bytes consumed from the reader
\*   hdr  the *proto.Header returned (Nil unless st = "ok")
HdrRes(st, n, hdr) == [st |-> st, n |-> n, hdr |-> hdr]

Header(ver, cmd, tp, sip, dip, sport, dport) ==
    [Version |-> ver, Command |-> cmd, TransportProtocol |-> tp,
     SourceAddress |-> sip, DestinationAddress |-> dip,
     SourcePort |-> sport, DestinationPort |-> dport]

PortOk(p) == p.ok /\ p.val >= 0 /\ p.val <= 65535

\* 4.1 step 3: the addresses and ports of a v1 line
pv1Addrs(n, tp, sip, dip, sport, dport) ==
    IF sip = Nil \/ dip = Nil THEN HdrRes("fatal", n, Nil)
    ELSE IF ~PortOk(sport) \/ ~PortOk(dport) THEN HdrRes("fatal", n, Nil)
    ELSE HdrRes("ok", n, Header(1, "PROXY", tp, sip, dip, sport.val, dport.val))

\* 4.1 step 3: exactly six fields, the transport token TCP4 or TCP6, and
\* IP literals of the family the token implies
pv1Parts(n, parts) ==
    IF Len(parts) # 6 THEN HdrRes("fatal", n, Nil)
    ELSE IF parts[2] = sTCP4
    THEN pv1Addrs(n, "TCPv4", parseIPv4(parts[3]), parseIPv4(parts[4]),
                  Atoi(parts[5]), Atoi(parts[6]))
    ELSE IF parts[2] = sTCP6
    THEN pv1Addrs(n, "TCPv6", parseIPv6(parts[3]), parseIPv6(parts[4]),
                  Atoi(parts[5]), Atoi(parts[6]))
    ELSE HdrRes("fatal", n, Nil)

\* 4.1 step 3: a full line terminated by CRLF (`line` ends with the LF)
parseVersion1(line) ==
    IF line[Len(line) - 1] # CR THEN HdrRes("fatal", Len(line), Nil)
    ELSE pv1Parts(Len(line), Split(SubSeq(line, 1, Len(line) - 2), SP))

\* 4.1 step 4: the family / transport byte
TransportOf(b) ==
    IF b = 17 THEN "TCPv4" ELSE IF b = 18 THEN "UDPv4"
    ELSE IF b = 33 THEN "TCPv6" ELSE IF b = 34 THEN "UDPv6" ELSE "UNSPEC"

IPLen(tp) == IF tp = "TCPv4" \/ tp = "UDPv4" THEN 4 ELSE 16

\* a 2-byte big-endian integer at blk[i], blk[i + 1]
BE16(blk, i) == blk[i] * 256 + blk[i + 1]

\* 4.1 step 4: the address block of a PROXY command, w bytes per IP
pv2Block(n, tp, blk, w) ==
    IF Len(blk) < 2 * w + 4 THEN HdrRes("fatal", n, Nil)
    ELSE HdrRes("ok", n,
                Header(2, "PROXY", tp, SubSeq(blk, 1, w), SubSeq(blk, w + 1, 2 * w),
                       BE16(blk, 2 * w + 1), BE16(blk, 2 * w + 3)))

\* 4.1 step 4: the 16 bytes are there; cmd, tp and len are decoded
pv2Fields(avail, short, cmd, tp, len) ==
    IF tp = "UNSPEC" THEN HdrRes("fatal", 14, Nil)
    ELSE IF Len(avail) < 16 + len THEN short
    ELSE IF cmd = 0 THEN HdrRes("ok", 16 + len, Header(2, "LOCAL", tp, Nil, Nil, 0, 0))
    ELSE pv2Block(16 + len, tp, SubSeq(avail, 17, 16 + len), IPLen(tp))

\* 4.1 steps 4 and 5: a v2 header, the signature already matched; `short`
\* is what running out of bytes comes to
pv2(avail, short) ==
    IF Len(avail) < 13 THEN short
    ELSE IF avail[13] \div 16 # 2 \/ avail[13] % 16 > 1 THEN HdrRes("fatal", 13, Nil)
    ELSE IF Len(avail) < 14 THEN short
    ELSE IF TransportOf(avail[14]) = "UNSPEC" THEN HdrRes("fatal", 14, Nil)
    ELSE IF Len(avail) < 16 THEN short
    ELSE pv2Fields(avail, short, avail[13] % 16, TransportOf(avail[14]), BE16(avail, 15))

parseVersion2(avail, rderr) ==
    pv2(avail, IF rderr THEN HdrRes("fatal", Len(avail), Nil) ELSE HdrRes("wait", 0, Nil))

\* 4.1 steps 3 and 5: the v1 line, j the index of the first LF
pv1Line(avail, rderr, j) ==
    IF j # 0 THEN parseVersion1(SubSeq(avail, 1, j))
    ELSE IF rderr THEN HdrRes("fatal", Len(avail), Nil)
    ELSE HdrRes("wait", 0, Nil)

\* 4.1 steps 1, 2 and 5: detect the signature, then parse
DetectAndParse(avail, rderr) ==
    IF IsPrefixOf(SIGV1, avail) THEN pv1Line(avail, rderr, IndexByte(avail, LF))
    ELSE IF IsPrefixOf(SIGV2, avail) THEN parseVersion2(avail, rderr)
    ELSE IF /\ ~rderr
            /\ \/ IsPrefixOf(Take(avail, Len(SIGV1)), SIGV1)
               \/ IsPrefixOf(Take(avail, Len(SIGV2)), SIGV2)
    THEN HdrRes("wait", 0, Nil)
    ELSE HdrRes("nohdr", 0, Nil)

\* ------------------------------------------------------------- streams
\* "PROXY TCP4 1.1.1.1 2.2.2.2 10 20\r\n"
V1Good == <<80, 82, 79, 88, 89, 32, 84, 67, 80, 52, 32, 49, 46, 49, 46, 49, 46, 49, 32, 50, 46, 50, 46, 50, 46, 50, 32, 49, 48, 32, 50, 48, 13, 10>>
\* "PROXY TCP6 ::1 ::2 10 20\r\n"
V1Good6 == <<80, 82, 79, 88, 89, 32, 84, 67, 80, 54, 32, 58, 58, 49, 32, 58, 58, 50, 32, 49, 48, 32, 50, 48, 13, 10>>
\* "PROXY TCP4 what 2.2.2.2 10 20\r\n"
V1BadSrc == <<80, 82, 79, 88, 89, 32, 84, 67, 80, 52, 32, 119, 104, 97, 116, 32, 50, 46, 50, 46, 50, 46, 50, 32, 49, 48, 32, 50, 48, 13, 10>>
\* "PROXY TCP4 3.3.3.3 bad 30 40\r\n"
V1BadDst == <<80, 82, 79, 88, 89, 32, 84, 67, 80, 52, 32, 51, 46, 51, 46, 51, 46, 51, 32, 98, 97, 100, 32, 51, 48, 32, 52, 48, 13, 10>>
\* "PROXY TCP4 1.1": the stream ends inside the line
V1Short == <<80, 82, 79, 88, 89, 32, 84, 67, 80, 52, 32, 49, 46, 49>>
\* v2, PROXY over TCPv4, 1.1.1.1:10 -> 2.2.2.2:20
V2Proxy == SIGV2 \o <<33, 17, 0, 12, 1, 1, 1, 1, 2, 2, 2, 2, 0, 10, 0, 20>>
\* v2, LOCAL, empty address block
V2Local == SIGV2 \o <<32, 17, 0, 0>>
\* v2 with command 2, which is neither LOCAL nor PROXY
V2BadCmd == SIGV2 \o <<34, 17, 0, 0>>
\* "ping"
Ping == <<112, 105, 110, 103>>
\* "PROpi": shares a proper prefix with the v1 signature
ProPing == <<80, 82, 79, 112, 105>>
\* "PRO": shorter than the signature
Pro == <<80, 82, 79>>
\* the first 3 bytes of the v2 signature
Sig2Cut == <<13, 10, 13>>

\* a v1 header that arrives in two pieces, the first inside the signature
V1GoodRest == Drop(V1Good, Len(Pro))

\* what the peer writes before it (maybe) closes: each stream is the
\* sequence of its writes, and a write reaches the socket whole
Streams ==
    { <<V1Good, Ping>>, <<Pro, V1GoodRest, Ping>>, <<V1Good6, Ping>>,
      <<V2Proxy, Ping>>, <<V2Local, Ping>>,
      <<Ping>>, <<ProPing>>, <<Pro>>, <<Sig2Cut>>,
      <<V1BadSrc, Ping>>, <<V1Good, V1BadDst, Ping>>, <<V1Short>>,
      <<V2BadCmd, Ping>> }

RECURSIVE Flat(_)
Flat(ws) == IF Len(ws) = 0 THEN <<>> ELSE ws[1] \o Flat(Tail(ws))

\* the socket peer: p.conn.RemoteAddr()
PeerAddr == TCPAddr(<<127, 0, 0, 1>>, 4000)

\* the socket's own address: p.conn.LocalAddr()
SockLocalAddr == TCPAddr(<<127, 0, 0, 1>>, 8080)

\* Listener.ProxyHeaderTimeout values tried: zero (unset) and one setting
Timeouts == {0, 100}

Callers == 1..NumCallers

\* --------------------------------------------------------------- state
VARIABLES
    impl,                \* "conn" (protocol.go) or "Conn" (part_000)
    ProxyHeaderTimeout,  \* Listener.ProxyHeaderTimeout (ms)
    writes,              \* the peer's writes, in order
    nsent,               \* how many of them have reached the socket
    peerClosed,          \* the peer closed after writing them all
    acc,                 \* Accept: "none", "pending", "returned", "failed"
    connc,               \* Listener.connc: the value a helper is sending
    buf,                 \* bufReader: bytes buffered and not yet consumed
    rd,                  \* bytes the bufReader has read off the socket
    closed,              \* p.conn.Close() was called
    once,                \* sync.Once: "fresh", "running", "done"
    header,              \* Conn.header
    srcAddr, dstAddr,    \* conn.srcAddr, conn.dstAddr
    proxyHeaderTimeout,  \* Conn.proxyHeaderTimeout (ms)
    readDeadline,        \* read deadline on p.conn: "none", "header" (set by
                         \* checkHeader) or "caller"
    writeDeadline,       \* write deadline on p.conn: "none" or "caller"
    io,                  \* the last call of Write, Close, LocalAddr or a
                         \* deadline setter, its result, and their number
    pc,                  \* per goroutine: where its call stands
    err,                 \* per goroutine: the closure's err in Read
    \* history, for stating properties
    decodes,             \* one record per codec run, in order
    delivered,           \* the bytes Reads returned, concatenated
    readRets,            \* kinds of Read returns seen: "data", "eof", "err"
    waiterRets,          \* the same, of Reads that had waited in once.Do
    addrs,               \* the values RemoteAddr returned, each with the
                         \* number of codec runs that had ended by then
    callers,             \* the goroutines that called Read or RemoteAddr
    timedOut,            \* the header timeout fired
    logs,                \* levels of the messages log.Printf wrote
    \* the protocol.go Listener under concurrent Accept calls
    initOnce,            \* Listener.initOnce: "fresh" or "done"
    listener,            \* Listener.Listener: raw connections accepted so
                         \* far, and whether it was closed
    apc,                 \* per goroutine: where its Accept call stands
    helper,              \* per raw connection: its helper goroutine, the
                         \* value it sends and whose Accept call started it
    returned             \* per raw connection: what Accept calls returned
                         \* for it, and to whom, in order

\* one accepted connection
connVars == <<impl, ProxyHeaderTimeout, writes, writeDeadline, io, nsent, peerClosed, acc, connc, buf, rd, closed, once,
              header, srcAddr, dstAddr, proxyHeaderTimeout, readDeadline, pc, err,
              decodes, delivered, readRets, waiterRets, addrs, callers,
              timedOut, logs>>

\* the listener with several Accept calls in flight
lisVars == <<initOnce, listener, apc, helper, returned>>

vars == <<connVars, lisVars>>

\* what Accept, Read and RemoteAddr leave alone
ioVars   == <<writeDeadline, io>>
envVars  == <<impl, ProxyHeaderTimeout, writes, ioVars, lisVars>>
peerVars == <<nsent, peerClosed>>

\* the bytes the peer writes, in order, and how many reached the socket
wire == Flat(writes)
sent == Len(Flat(SubSeq(writes, 1, nsent)))
histVars == <<decodes, delivered, readRets, waiterRets, addrs, callers,
             timedOut, logs>>

InitOn(S) ==
    /\ impl \in {"conn", "Conn"}
    /\ writes \in S
    /\ nsent = 0
    /\ peerClosed = FALSE
    /\ acc = "none"
    /\ connc = "none"
    /\ buf = <<>>
    /\ rd = 0
    /\ closed = FALSE
    /\ once = "fresh"
    /\ header = Nil
    /\ srcAddr = Nil
    /\ dstAddr = Nil
    /\ ProxyHeaderTimeout \in (IF impl = "Conn" THEN Timeouts ELSE {0})
    /\ proxyHeaderTimeout = ProxyHeaderTimeout
    /\ readDeadline = "none"
    /\ writeDeadline = "none"
    /\ io = [n |-> 0, op |-> "none", ret |-> "none"]
    /\ pc = [g \in Callers |-> "idle"]
    /\ err = [g \in Callers |-> "nil"]
    /\ decodes = <<>>
    /\ delivered = <<>>
    /\ readRets = {}
    /\ waiterRets = {}
    /\ addrs = {}
    /\ callers = {}
    /\ timedOut = FALSE
    /\ logs = {}
    /\ initOnce = "fresh"
    /\ listener = [accepted |-> 0, closed |-> FALSE]
    /\ apc = [a \in Callers |-> "idle"]
    /\ helper = [h \in 1..MaxRaw |-> [st |-> "none", v |-> "nil", by |-> 0]]
    /\ returned = [h \in 1..MaxRaw |-> <<>>]

Init == InitOn(Streams)

\* ------------------------------------------------------------ the peer
PeerSend ==
    /\ nsent < Len(writes)
    /\ nsent' = nsent + 1
    /\ UNCHANGED <<envVars, peerClosed, acc, connc, buf, rd, closed, once,
                   header, srcAddr, dstAddr, proxyHeaderTimeout, readDeadline,
                   pc, err, histVars>>

PeerClose ==
    /\ nsent = Len(writes)
    /\ ~peerClosed
    /\ peerClosed' = TRUE
    /\ UNCHANGED <<envVars, nsent, acc, connc, buf, rd, closed, once,
                   header, srcAddr, dstAddr, proxyHeaderTimeout, readDeadline,
                   pc, err, histVars>>

\* ----------------------------------------------------- the bufio.Reader
\* bytes the socket holds that the bufReader has not read
Unread == IF closed THEN <<>> ELSE SubSeq(wire, rd + 1, sent)

\* what the bufReader holds or can fetch without blocking
Avail == buf \o Unread

\* a read of the socket past Avail fails (closed, EOF) rather than blocks
SockErr == closed \/ peerClosed

\* bufReader.Read(b) with len(b) = n: the buffer first, else one read of
\* the socket; kind "block" when that read would wait for the peer
bufReaderRead(n) ==
    IF buf # <<>>
    THEN [kind |-> "data", data |-> Take(buf, n), buf |-> Drop(buf, n), rd |-> rd]
    ELSE IF closed
    THEN [kind |-> "err", data |-> <<>>, buf |-> buf, rd |-> rd]
    ELSE IF rd < sent
    THEN [kind |-> "data", data |-> Take(Unread, n), buf |-> Drop(Unread, n), rd |-> sent]
    ELSE IF peerClosed
    THEN [kind |-> "eof", data |-> <<>>, buf |-> buf, rd |-> rd]
    ELSE [kind |-> "block", data |-> <<>>, buf |-> buf, rd |-> rd]

\* len(b) of a Read: a short buffer, and one that takes all there is
ReadLens == {MaxReadLen, 64}

\* the tail of Read: p.bufReader.Read(b), and its return
ReadDone(g, r) ==
    /\ r.kind # "block"
    /\ buf' = r.buf
    /\ rd' = r.rd
    /\ delivered' = delivered \o r.data
    /\ readRets' = readRets \cup {r.kind}
    /\ waiterRets' = IF pc[g] = "ReadWoke" THEN waiterRets \cup {r.kind} ELSE waiterRets
    /\ pc' = [pc EXCEPT ![g] = "idle"]

ReadTail(g) == \E n \in ReadLens : ReadDone(g, bufReaderRead(n))

\* a codec run on the bufReader decides from the buffer alone (fromBuf)
\* when it can, else after fetching what the socket holds
BufAfter(fromBuf, n) == IF fromBuf THEN Drop(buf, n) ELSE Drop(Avail, n)

RdAfter(fromBuf) == IF fromBuf \/ closed THEN rd ELSE sent

\* a value RemoteAddr returns, as the history records it
Returned(a) == [addr |-> a, n |-> Len(decodes)]

\* the outcome of a codec run, as the history records it
Decode(by, st, sig) == [by |-> by, st |-> st, sig |-> sig]

\* ---------------------------------------------------- protocol.go: conn
connOutcome(r) ==
    IF r.st = "err" THEN "fatal" ELSE IF r.sig THEN "ok" ELSE "nohdr"

\* checkPrefix returned r: the fields and the reader after it, and what
\* its caller (newConn inside Accept, or the Once of Read by g) does next
connApply(g, by, r, fromBuf) ==
    /\ r.st # "wait"
    /\ buf' = BufAfter(fromBuf, r.n)
    /\ rd' = RdAfter(fromBuf)
    /\ closed' = (closed \/ r.close)
    /\ srcAddr' = IF r.src # Nil THEN r.src ELSE srcAddr
    /\ dstAddr' = IF r.dst # Nil THEN r.dst ELSE dstAddr
    /\ decodes' = Append(decodes, Decode(by, connOutcome(r), r.sig))
    /\ IF by = "Accept"
       THEN /\ connc' = IF r.st = "err" THEN "err" ELSE "conn"
            /\ UNCHANGED <<err, once, pc>>
       ELSE /\ err' = [err EXCEPT ![g] = IF r.st = "err" THEN "fatal" ELSE "nil"]
            /\ once' = "done"
            /\ pc' = [pc EXCEPT ![g] = "ReadPost"]
            /\ UNCHANGED connc

\* checkPrefix on the connection's bufReader; local is its run on the
\* buffer alone
connRun(g, by, local) ==
    IF local.st # "wait"
    THEN connApply(g, by, local, TRUE)
    ELSE connApply(g, by, checkPrefix(Avail, SockErr), FALSE)

\* Listener.Accept: the raw connection is accepted and the helper
\* goroutine starts newConn
conn_Accept ==
    /\ impl = "conn"
    /\ acc = "none"
    /\ acc' = "pending"
    /\ UNCHANGED <<envVars, peerVars, connc, buf, rd, closed, once, header,
                   srcAddr, dstAddr, proxyHeaderTimeout, readDeadline, pc, err,
                   histVars>>

\* the helper: newConn runs checkPrefix, then sends the conn or the error
newConn ==
    /\ impl = "conn"
    /\ acc = "pending"
    /\ connc = "none"
    /\ connRun(1, "Accept", checkPrefix(buf, FALSE))
    /\ UNCHANGED <<envVars, peerVars, acc, header, proxyHeaderTimeout,
                   readDeadline, delivered, readRets, waiterRets, addrs, callers, timedOut, logs>>

\* Accept receives from connc and returns
conn_AcceptReturn ==
    /\ impl = "conn"
    /\ acc = "pending"
    /\ connc # "none"
    /\ acc' = IF connc = "conn" THEN "returned" ELSE "failed"
    /\ connc' = "none"
    /\ UNCHANGED <<envVars, peerVars, buf, rd, closed, once, header, srcAddr,
                   dstAddr, proxyHeaderTimeout, readDeadline, pc, err, histVars>>

\* conn.Read up to p.once.Do
conn_Read(g) ==
    /\ impl = "conn"
    /\ acc = "returned"
    /\ pc[g] = "idle"
    /\ callers' = callers \cup {g}
    /\ IF once = "fresh"
       THEN /\ once' = "running"
            /\ pc' = [pc EXCEPT ![g] = "ReadOnce"]
            /\ UNCHANGED <<buf, rd, delivered, readRets, waiterRets>>
       ELSE IF once = "running"
       THEN /\ pc' = [pc EXCEPT ![g] = "ReadWait"]
            /\ UNCHANGED <<once, buf, rd, delivered, readRets, waiterRets>>
       ELSE /\ ReadTail(g)
            /\ UNCHANGED once
    /\ err' = [err EXCEPT ![g] = "nil"]
    /\ UNCHANGED <<envVars, peerVars, acc, connc, closed, header, srcAddr,
                   dstAddr, proxyHeaderTimeout, readDeadline, decodes, addrs,
                   timedOut, logs>>

\* the closure of p.once.Do in conn.Read: err = p.checkPrefix()
conn_checkPrefix(g) ==
    /\ impl = "conn"
    /\ pc[g] = "ReadOnce"
    /\ connRun(g, "Read", checkPrefix(buf, FALSE))
    /\ UNCHANGED <<envVars, peerVars, acc, connc, header, proxyHeaderTimeout,
                   readDeadline, delivered, readRets, waiterRets, addrs, callers, timedOut, logs>>

\* conn.Read after p.once.Do returned
conn_ReadReturn(g) ==
    /\ impl = "conn"
    /\ pc[g] \in {"ReadPost", "ReadWoke"}
    /\ IF err[g] # "nil"
       THEN /\ readRets' = readRets \cup {"err"}
            /\ pc' = [pc EXCEPT ![g] = "idle"]
            /\ UNCHANGED <<buf, rd, delivered, waiterRets>>
       ELSE ReadTail(g)
    /\ UNCHANGED <<envVars, peerVars, acc, connc, closed, once, header, srcAddr,
                   dstAddr, proxyHeaderTimeout, readDeadline, err, decodes,
                   addrs, callers, timedOut, logs>>

\* conn.RemoteAddr
conn_RemoteAddr(g) ==
    /\ impl = "conn"
    /\ acc = "returned"
    /\ pc[g] = "idle"
    /\ callers' = callers \cup {g}
    /\ addrs' = addrs \cup {Returned(IF srcAddr # Nil THEN srcAddr ELSE PeerAddr)}
    /\ UNCHANGED <<envVars, peerVars, acc, connc, buf, rd, closed, once, header,
                   srcAddr, dstAddr, proxyHeaderTimeout, readDeadline, pc, err,
                   decodes, delivered, readRets, waiterRets, timedOut, logs>>

\* a goroutine blocked in once.Do goes on when the Once is done
OnceReturn(g) ==
    /\ pc[g] \in {"ReadWait", "AddrWait"}
    /\ once = "done"
    /\ pc' = [pc EXCEPT ![g] = IF pc[g] = "ReadWait" THEN "ReadWoke" ELSE "AddrPost"]
    /\ UNCHANGED <<envVars, peerVars, acc, connc, buf, rd, closed, once, header,
                   srcAddr, dstAddr, proxyHeaderTimeout, readDeadline, err,
                   histVars>>

\* ------------------------------------------------------ part_000: Conn
\* the timeout checkHeader substitutes for an unset one (ms)
GoldenHammer == 50

\* proto.ReadTimeout(p.bufReader, timeout): the codec, given up on when
\* `expired` (the timeout passed while it was blocked for bytes) and then
\* reported as "no proxy protocol", as the disabled TestTimeout expects
GiveUp(r, expired) == IF r.st = "wait" /\ expired THEN HdrRes("nohdr", 0, Nil) ELSE r

ReadTimeout(avail, rderr, expired) == GiveUp(DetectAndParse(avail, rderr), expired)

\* Listener.Accept: NewConn wraps the raw connection and returns
Conn_Accept ==
    /\ impl = "Conn"
    /\ acc = "none"
    /\ acc' = "returned"
    /\ UNCHANGED <<envVars, peerVars, connc, buf, rd, closed, once, header,
                   srcAddr, dstAddr, proxyHeaderTimeout, readDeadline, pc, err,
                   histVars>>

\* checkHeader as it would be if it set no read deadline
checkHeaderEnter_noDeadline ==
    /\ readDeadline' = readDeadline
    /\ proxyHeaderTimeout' =
           IF proxyHeaderTimeout = 0 THEN GoldenHammer ELSE proxyHeaderTimeout

\* checkHeader up to the call of proto.ReadTimeout (part_000:140-149)
checkHeaderEnter ==
    /\ readDeadline' = IF proxyHeaderTimeout # 0 THEN "header" ELSE readDeadline
    /\ proxyHeaderTimeout' =
           IF proxyHeaderTimeout = 0 THEN GoldenHammer ELSE proxyHeaderTimeout

\* what p.once.Do does for a caller that wants to go on at `run`, `wait`
\* or (the Once done) straight on
OnceDo(g, run, wait) ==
    IF once = "fresh"
    THEN /\ once' = "running"
         /\ pc' = [pc EXCEPT ![g] = run]
         /\ checkHeaderEnter
    ELSE /\ once = "running"
         /\ pc' = [pc EXCEPT ![g] = wait]
         /\ UNCHANGED <<once, readDeadline, proxyHeaderTimeout>>

\* Conn.Read up to p.once.Do
Conn_Read(g) ==
    /\ impl = "Conn"
    /\ acc = "returned"
    /\ pc[g] = "idle"
    /\ callers' = callers \cup {g}
    /\ IF once = "done"
       THEN /\ ReadTail(g)
            /\ UNCHANGED <<once, readDeadline, proxyHeaderTimeout>>
       ELSE /\ OnceDo(g, "ReadOnce", "ReadWait")
            /\ UNCHANGED <<buf, rd, delivered, readRets, waiterRets>>
    /\ err' = [err EXCEPT ![g] = "nil"]
    /\ UNCHANGED <<envVars, peerVars, acc, connc, closed, header, srcAddr,
                   dstAddr, decodes, addrs, timedOut, logs>>

\* RemoteAddr as it would be if it never looked at the header
RemoteAddrOf_ignoreHeader(h) == PeerAddr

\* RemoteAddr as it would be without the Command.IsProxy() test
RemoteAddrOf_anyCommand(h) ==
    IF h # Nil THEN TCPAddr(h.SourceAddress, h.SourcePort) ELSE PeerAddr

\* the address Conn.RemoteAddr builds after p.once.Do (part_000:111-124)
RemoteAddrOf(h) ==
    IF h # Nil /\ h.Command = "PROXY"
    THEN IF h.TransportProtocol \in {"TCPv4", "TCPv6"}
         THEN TCPAddr(h.SourceAddress, h.SourcePort)
         ELSE IF h.TransportProtocol \in {"UDPv4", "UDPv6"}
         THEN UDPAddr(h.SourceAddress, h.SourcePort)
         ELSE PeerAddr
    ELSE PeerAddr

\* Conn.RemoteAddr up to p.once.Do
Conn_RemoteAddr(g) ==
    /\ impl = "Conn"
    /\ acc = "returned"
    /\ pc[g] = "idle"
    /\ callers' = callers \cup {g}
    /\ IF once = "done"
       THEN /\ addrs' = addrs \cup {Returned(RemoteAddrOf(header))}
            /\ UNCHANGED <<once, readDeadline, proxyHeaderTimeout, pc>>
       ELSE /\ OnceDo(g, "AddrOnce", "AddrWait")
            /\ UNCHANGED addrs
    /\ UNCHANGED <<envVars, peerVars, acc, connc, buf, rd, closed, header,
                   srcAddr, dstAddr, err, decodes, delivered, readRets, waiterRets, timedOut, logs>>

\* the closure of p.once.Do by g with checkHeader returning r: the header
\* is stored and the deferred reset of the deadline runs; in RemoteAddr a
\* fatal error closes the connection and replaces the bufReader
onceBody(g, r, fromBuf) ==
    /\ r.st # "wait"
    /\ header' = r.hdr
    /\ readDeadline' = IF ProxyHeaderTimeout # 0 THEN "none" ELSE readDeadline
    /\ IF pc[g] = "AddrOnce" /\ r.st = "fatal"
       THEN buf' = <<>> /\ closed' = TRUE /\ logs' = logs \cup {"ERR"}
       ELSE buf' = BufAfter(fromBuf, r.n) /\ closed' = closed /\ logs' = logs
    /\ rd' = RdAfter(fromBuf)
    /\ err' = [err EXCEPT ![g] = IF r.st = "ok" THEN "nil" ELSE r.st]
    /\ decodes' = Append(decodes,
           Decode(IF pc[g] = "AddrOnce" THEN "RemoteAddr" ELSE "Read",
                  r.st, r.st # "nohdr"))
    /\ once' = "done"
    /\ pc' = [pc EXCEPT ![g] = IF pc[g] = "AddrOnce" THEN "AddrPost" ELSE "ReadPost"]

\* proto.ReadTimeout on the connection's bufReader; local is the codec's
\* run on the buffer alone
ConnRun(g, expired, local) ==
    IF local.st # "wait"
    THEN onceBody(g, local, TRUE)
    ELSE onceBody(g, ReadTimeout(Avail, SockErr, expired), FALSE)

\* checkHeader ends with what the codec found
Conn_checkHeader(g) ==
    /\ impl = "Conn"
    /\ pc[g] \in {"ReadOnce", "AddrOnce"}
    /\ ConnRun(g, FALSE, DetectAndParse(buf, FALSE))
    /\ UNCHANGED <<envVars, peerVars, acc, connc, srcAddr, dstAddr,
                   proxyHeaderTimeout, delivered, readRets, waiterRets, addrs, callers,
                   timedOut>>

\* checkHeader ends because the timeout passed while the codec waited
Conn_headerTimeout(g) ==
    /\ impl = "Conn"
    /\ pc[g] \in {"ReadOnce", "AddrOnce"}
    /\ DetectAndParse(Avail, SockErr).st = "wait"
    /\ ConnRun(g, TRUE, DetectAndParse(buf, FALSE))
    /\ timedOut' = TRUE
    /\ UNCHANGED <<envVars, peerVars, acc, connc, srcAddr, dstAddr,
                   proxyHeaderTimeout, delivered, readRets, waiterRets, addrs, callers>>

\* Conn.Read after p.once.Do returned
Conn_ReadReturn(g) ==
    /\ impl = "Conn"
    /\ pc[g] \in {"ReadPost", "ReadWoke"}
    /\ logs' = IF err[g] = "nohdr" THEN logs \cup {"WARN"} ELSE logs
    /\ IF err[g] = "fatal"
       THEN /\ readRets' = readRets \cup {"err"}
            /\ pc' = [pc EXCEPT ![g] = "idle"]
            /\ UNCHANGED <<buf, rd, delivered, waiterRets>>
       ELSE ReadTail(g)
    /\ UNCHANGED <<envVars, peerVars, acc, connc, closed, once, header, srcAddr,
                   dstAddr, proxyHeaderTimeout, readDeadline, err, decodes,
                   addrs, callers, timedOut>>

\* Conn.RemoteAddr after p.once.Do returned
Conn_RemoteAddrReturn(g) ==
    /\ impl = "Conn"
    /\ pc[g] = "AddrPost"
    /\ addrs' = addrs \cup {Returned(RemoteAddrOf(header))}
    /\ pc' = [pc EXCEPT ![g] = "idle"]
    /\ UNCHANGED <<envVars, peerVars, acc, connc, buf, rd, closed, once, header,
                   srcAddr, dstAddr, proxyHeaderTimeout, readDeadline, err,
                   decodes, delivered, readRets, waiterRets, callers, timedOut, logs>>

\* ------------------------------------------------------- specification
Next ==
    \/ PeerSend
    \/ PeerClose
    \/ conn_Accept
    \/ newConn
    \/ conn_AcceptReturn
    \/ Conn_Accept
    \/ \E g \in Callers :
        \/ conn_Read(g)
        \/ conn_checkPrefix(g)
        \/ conn_ReadReturn(g)
        \/ conn_RemoteAddr(g)
        \/ OnceReturn(g)
        \/ Conn_Read(g)
        \/ Conn_RemoteAddr(g)
        \/ Conn_checkHeader(g)
        \/ Conn_headerTimeout(g)
        \/ Conn_ReadReturn(g)
        \/ Conn_RemoteAddrReturn(g)

Spec == Init /\ [][Next]_vars

\* ------------------------------------- Write, Close, LocalAddr, deadlines
\* (part_000:84-137 and protocol.go:100-128, the same in both wrappers)
\* a call of one of them returning ret, as io records it
Called(op, ret) == [n |-> io.n + 1, op |-> op, ret |-> ret]

\* what the underlying connection's Write, Close and setters return
connRet == IF closed THEN "err" ELSE "ok"

\* LocalAddr as it would be if it took the header's destination
LocalAddrRet_fromHeader ==
    IF dstAddr # Nil THEN dstAddr
    ELSE IF header # Nil /\ header.DestinationAddress # Nil
    THEN TCPAddr(header.DestinationAddress, header.DestinationPort)
    ELSE SockLocalAddr

\* what LocalAddr returns: p.conn.LocalAddr()
LocalAddrRet == SockLocalAddr

\* the deadlines a caller passes: the zero time ("none") or a time
Deadlines == {"none", "caller"}

\* a call can be made on a connection Accept has returned
CanCall == acc = "returned" /\ io.n < MaxCalls

Write ==
    /\ CanCall
    /\ io' = Called("Write", connRet)
    /\ UNCHANGED <<lisVars, impl, ProxyHeaderTimeout, writes, writeDeadline, peerVars,
                   acc, connc, buf, rd, closed, once, header, srcAddr, dstAddr,
                   proxyHeaderTimeout, readDeadline, pc, err, histVars>>

Close ==
    /\ CanCall
    /\ io' = Called("Close", connRet)
    /\ closed' = TRUE
    /\ UNCHANGED <<lisVars, impl, ProxyHeaderTimeout, writes, writeDeadline, peerVars,
                   acc, connc, buf, rd, once, header, srcAddr, dstAddr,
                   proxyHeaderTimeout, readDeadline, pc, err, histVars>>

LocalAddr ==
    /\ CanCall
    /\ io' = Called("LocalAddr", LocalAddrRet)
    /\ UNCHANGED <<lisVars, impl, ProxyHeaderTimeout, writes, writeDeadline, peerVars,
                   acc, connc, buf, rd, closed, once, header, srcAddr, dstAddr,
                   proxyHeaderTimeout, readDeadline, pc, err, histVars>>

SetDeadline(t) ==
    /\ CanCall
    /\ io' = Called("SetDeadline", connRet)
    /\ readDeadline' = IF closed THEN readDeadline ELSE t
    /\ writeDeadline' = IF closed THEN writeDeadline ELSE t
    /\ UNCHANGED <<lisVars, impl, ProxyHeaderTimeout, writes, peerVars,
                   acc, connc, buf, rd, closed, once, header, srcAddr, dstAddr,
                   proxyHeaderTimeout, pc, err, histVars>>

SetReadDeadline(t) ==
    /\ CanCall
    /\ io' = Called("SetReadDeadline", connRet)
    /\ readDeadline' = IF closed THEN readDeadline ELSE t
    /\ UNCHANGED <<lisVars, impl, ProxyHeaderTimeout, writes, writeDeadline, peerVars,
                   acc, connc, buf, rd, closed, once, header, srcAddr, dstAddr,
                   proxyHeaderTimeout, pc, err, histVars>>

SetWriteDeadline(t) ==
    /\ CanCall
    /\ io' = Called("SetWriteDeadline", connRet)
    /\ writeDeadline' = IF closed THEN writeDeadline ELSE t
    /\ UNCHANGED <<lisVars, impl, ProxyHeaderTimeout, writes, peerVars,
                   acc, connc, buf, rd, closed, once, header, srcAddr, dstAddr,
                   proxyHeaderTimeout, readDeadline, pc, err, histVars>>

\* one goroutine in Read and RemoteAddr, another making these calls, on
\* streams with a header that names a destination, without a header and
\* with a malformed header
IOStreams == { <<V1Good, Ping>>, <<Ping>>, <<V1BadSrc, Ping>> }

InitIO == Init /\ writes \in IOStreams

NextIO ==
    \/ PeerSend
    \/ PeerClose
    \/ conn_Accept
    \/ newConn
    \/ conn_AcceptReturn
    \/ Conn_Accept
    \/ conn_Read(1)
    \/ conn_checkPrefix(1)
    \/ conn_ReadReturn(1)
    \/ conn_RemoteAddr(1)
    \/ Conn_Read(1)
    \/ Conn_RemoteAddr(1)
    \/ Conn_checkHeader(1)
    \/ Conn_headerTimeout(1)
    \/ Conn_ReadReturn(1)
    \/ Conn_RemoteAddrReturn(1)
    \/ Write
    \/ Close
    \/ LocalAddr
    \/ \E t \in Deadlines :
        \/ SetDeadline(t)
        \/ SetReadDeadline(t)
        \/ SetWriteDeadline(t)

SpecIO == InitIO /\ [][NextIO]_vars

\* ------------------------------------------------ v1 field validation
\* protocol.go's listener fed v1 lines whose fields are out of range, of
\* the wrong family, wrongly terminated, miscounted or of an unknown type
\* "PROXY TCP4 1.1.1.1 2.2.2.2 70000 20\r\n"
V1BigPort == <<80, 82, 79, 88, 89, 32, 84, 67, 80, 52, 32, 49, 46, 49, 46, 49, 46, 49, 32, 50, 46, 50, 46, 50, 46, 50, 32, 55, 48, 48, 48, 48, 32, 50, 48, 13, 10>>
\* "PROXY TCP4 1.1.1.1 2.2.2.2 10 -1\r\n"
V1NegPort == <<80, 82, 79, 88, 89, 32, 84, 67, 80, 52, 32, 49, 46, 49, 46, 49, 46, 49, 32, 50, 46, 50, 46, 50, 46, 50, 32, 49, 48, 32, 45, 49, 13, 10>>
\* "PROXY TCP4 ::1 ::2 10 20\r\n"
V1Lit6 == <<80, 82, 79, 88, 89, 32, 84, 67, 80, 52, 32, 58, 58, 49, 32, 58, 58, 50, 32, 49, 48, 32, 50, 48, 13, 10>>
\* "PROXY TCP6 1.1.1.1 2.2.2.2 10 20\r\n"
V1Lit4 == <<80, 82, 79, 88, 89, 32, 84, 67, 80, 54, 32, 49, 46, 49, 46, 49, 46, 49, 32, 50, 46, 50, 46, 50, 46, 50, 32, 49, 48, 32, 50, 48, 13, 10>>
\* "PROXY TCP4 1.1.1.1 2.2.2.2 10 20\n"
V1BareLF == <<80, 82, 79, 88, 89, 32, 84, 67, 80, 52, 32, 49, 46, 49, 46, 49, 46, 49, 32, 50, 46, 50, 46, 50, 46, 50, 32, 49, 48, 32, 50, 48, 10>>
\* "PROXY TCP4 1.1.1.1 2.2.2.2 10\r\n"
V1Five == <<80, 82, 79, 88, 89, 32, 84, 67, 80, 52, 32, 49, 46, 49, 46, 49, 46, 49, 32, 50, 46, 50, 46, 50, 46, 50, 32, 49, 48, 13, 10>>
\* "PROXY TCP4 1.1.1.1 2.2.2.2 10 20 30\r\n"
V1Seven == <<80, 82, 79, 88, 89, 32, 84, 67, 80, 52, 32, 49, 46, 49, 46, 49, 46, 49, 32, 50, 46, 50, 46, 50, 46, 50, 32, 49, 48, 32, 50, 48, 32, 51, 48, 13, 10>>
\* "PROXY UDP4 1.1.1.1 2.2.2.2 10 20\r\n"
V1Udp == <<80, 82, 79, 88, 89, 32, 85, 68, 80, 52, 32, 49, 46, 49, 46, 49, 46, 49, 32, 50, 46, 50, 46, 50, 46, 50, 32, 49, 48, 32, 50, 48, 13, 10>>

V1Streams ==
    { <<V1Good, Ping>>, <<V1BigPort, Ping>>, <<V1NegPort, Ping>>,
      <<V1Lit6, Ping>>, <<V1Lit4, Ping>>, <<V1BareLF, Ping>>,
      <<V1Five, Ping>>, <<V1Seven, Ping>>, <<V1Udp, Ping>>, <<V1Short>> }

InitV1 == InitOn(V1Streams) /\ impl = "conn"

NextV1 ==
    \/ PeerSend
    \/ PeerClose
    \/ conn_Accept
    \/ newConn
    \/ conn_AcceptReturn
    \/ \E g \in Callers :
        \/ conn_Read(g)
        \/ conn_checkPrefix(g)
        \/ conn_ReadReturn(g)
        \/ conn_RemoteAddr(g)
        \/ OnceReturn(g)

SpecV1 == InitV1 /\ [][NextV1]_vars

\* --------------------------------------- protocol.go: concurrent Accept
\* Several goroutines call Listener.Accept on one Listener. Each call that
\* gets a raw connection starts a helper goroutine, which runs newConn and
\* sends the conn or the error on the unbuffered p.connc; the call then
\* receives one value from p.connc, whichever helper sent it.

\* the helper mutated to fall through from the error send to the conn send
helperAfterSend_noElse(h) ==
    IF helper[h].v = "err" THEN [helper[h] EXCEPT !.v = "conn"]
    ELSE [helper[h] EXCEPT !.st = "done"]

\* protocol.go:57-62: after its one send the helper goroutine ends
helperAfterSend(h) == [helper[h] EXCEPT !.st = "done"]

\* protocol.go:48-49: Accept is called; p.initOnce.Do(p.init) makes connc
Accept_initOnce(a) ==
    /\ apc[a] = "idle"
    /\ apc' = [apc EXCEPT ![a] = "Accept"]
    /\ initOnce' = "done"
    /\ UNCHANGED <<connVars, listener, helper, returned>>

\* protocol.go:51, 55: the underlying Accept returns a raw connection and
\* the helper goroutine for it is started
Accept_rawc(a) ==
    /\ apc[a] = "Accept"
    /\ ~listener.closed
    /\ listener.accepted < MaxRaw
    /\ listener' = [listener EXCEPT !.accepted = @ + 1]
    /\ helper' = [helper EXCEPT ![listener.accepted + 1] =
                      [st |-> "newConn", v |-> "nil", by |-> a]]
    /\ apc' = [apc EXCEPT ![a] = "recv"]
    /\ UNCHANGED <<connVars, initOnce, returned>>

\* protocol.go:51-54: the underlying Accept fails, Accept returns its error
Accept_err(a) ==
    /\ apc[a] = "Accept"
    /\ listener.closed
    /\ apc' = [apc EXCEPT ![a] = "idle"]
    /\ UNCHANGED <<connVars, initOnce, listener, helper, returned>>

\* the underlying listener is closed
ListenerClose ==
    /\ ~listener.closed
    /\ listener' = [listener EXCEPT !.closed = TRUE]
    /\ UNCHANGED <<connVars, initOnce, apc, helper, returned>>

\* protocol.go:56-57: newConn returns the conn or an error
helper_newConn(h) ==
    /\ helper[h].st = "newConn"
    /\ \E v \in {"conn", "err"} :
          helper' = [helper EXCEPT ![h] = [@ EXCEPT !.st = "send", !.v = v]]
    /\ UNCHANGED <<connVars, initOnce, listener, apc, returned>>

\* protocol.go:58-68: a send on p.connc meets a receive: helper h hands
\* its value to the Accept call of a, which returns it
connc_handoff(h, a) ==
    /\ initOnce = "done"
    /\ helper[h].st = "send"
    /\ apc[a] = "recv"
    /\ returned' = [returned EXCEPT ![h] = Append(@, [by |-> a, v |-> helper[h].v])]
    /\ helper' = [helper EXCEPT ![h] = helperAfterSend(h)]
    /\ apc' = [apc EXCEPT ![a] = "idle"]
    /\ UNCHANGED <<connVars, initOnce, listener>>

InitAccept == InitOn({<<Ping>>}) /\ impl = "conn"

NextAccept ==
    \/ ListenerClose
    \/ \E a \in Callers :
        \/ Accept_initOnce(a)
        \/ Accept_rawc(a)
        \/ Accept_err(a)
    \/ \E h \in 1..MaxRaw :
        \/ helper_newConn(h)
        \/ \E a \in Callers : connc_handoff(h, a)

SpecAccept == InitAccept /\ [][NextAccept]_vars

\* ============================================================ the claims
\* what the history holds
AddrsSeen == {x.addr : x \in addrs}

\* decode number i failed after a signature had matched
FatalAt(i) == decodes[i].st = "fatal" /\ decodes[i].sig

HasFatal == \E i \in 1..Len(decodes) : FatalAt(i)

\* every call has returned
Quiet == acc # "pending" /\ \A g \in Callers : pc[g] = "idle"

\* what the Reads have delivered is the front of s, and all of s once a
\* Read has reported the end of the stream; no Read has failed
Delivers(s) ==
    /\ IsPrefixOf(delivered, s)
    /\ "err" \notin readRets
    /\ "eof" \in readRets => delivered = s

\* the streams that begin with a valid header: the source it names and the
\* payload after it
ValidCases ==
    { [w |-> <<V1Good, Ping>>, src |-> TCPAddr(<<1, 1, 1, 1>>, 10), payload |-> Ping],
      [w |-> <<Pro, V1GoodRest, Ping>>, src |-> TCPAddr(<<1, 1, 1, 1>>, 10), payload |-> Ping],
      [w |-> <<V1Good6, Ping>>,
       src |-> TCPAddr(<<0, 0, 0, 0, 0, 0, 0, 0, 0, 0, 0, 0, 0, 0, 0, 1>>, 10),
       payload |-> Ping],
      [w |-> <<V2Proxy, Ping>>, src |-> TCPAddr(<<1, 1, 1, 1>>, 10), payload |-> Ping],
      [w |-> <<V1Good, V1BadDst, Ping>>, src |-> TCPAddr(<<1, 1, 1, 1>>, 10),
       payload |-> V1BadDst \o Ping] }

\* the streams that begin with neither signature
PlainStreams == { <<Ping>>, <<ProPing>>, <<Pro>>, <<Sig2Cut>> }

\* ------------------------------------------------------------------ C1
\* C1 (as amended): on a Conn whose stream begins with a valid header that
\* has arrived before the header timeout passes, in any order of Read and
\* RemoteAddr calls, RemoteAddr returns the header's source IP and port and
\* the Reads deliver exactly the payload after the header.
C1_HeaderInTime ==
    \A c \in ValidCases :
        (impl = "Conn" /\ writes = c.w /\ ~timedOut) =>
            (AddrsSeen \subseteq {c.src} /\ Delivers(c.payload))

\* C1 as stated: the same for any connection whose stream begins with a
\* valid header, whenever its bytes arrive.
C1_AsStated ==
    \A c \in ValidCases :
        (impl = "Conn" /\ writes = c.w) =>
            (AddrsSeen \subseteq {c.src} /\ Delivers(c.payload))

\* a v2 PROXY header decoded by a RemoteAddr call, the address returned to
\* both callers and the whole payload read
C1_Witness ==
    /\ impl = "Conn" /\ writes = <<V2Proxy, Ping>> /\ ~timedOut
    /\ decodes = <<Decode("RemoteAddr", "ok", TRUE)>>
    /\ callers = Callers
    /\ AddrsSeen = {TCPAddr(<<1, 1, 1, 1>>, 10)}
    /\ delivered = Ping
    /\ "eof" \in readRets

\* ------------------------------------------------------------------ C2
\* C2: when the stream begins with neither signature (a proper prefix of
\* one included), the connection is handed to the caller, the Reads return
\* exactly the bytes sent, in order and once each, and RemoteAddr returns
\* the peer address of the underlying connection.
C2_Passthrough ==
    (writes \in PlainStreams) =>
        /\ acc # "failed"
        /\ AddrsSeen \subseteq {PeerAddr}
        /\ Delivers(wire)

\* ------------------------------------------------------------------ C3
\* C3: the codec runs at most once on a connection, the run at the
\* wrapper's creation counted, and RemoteAddr returns one value on every
\* call once decoding has completed.
C3_DecodeOnce ==
    /\ Len(decodes) <= 1
    /\ \A x, y \in addrs : (x.n >= 1 /\ y.n >= 1) => x.addr = y.addr

\* ------------------------------------------------------------------ C4
\* C4: callers that arrive while decoding is in flight see the one outcome
\* of it: RemoteAddr returns the same address to all, and after a fatal
\* parse error every Read that waited for the decoding returns an error and
\* no payload byte.
C4_SameOutcome ==
    /\ \A x, y \in addrs : x.addr = y.addr
    /\ HasFatal => waiterRets \subseteq {"err"}

\* ------------------------------------------------------------------ C5
\* C5: on a Conn whose stream is a v1 header with an invalid source IP and
\* then payload, with calls made one after another and the header arrived
\* in time, every Read returns an error and no byte is delivered.
C5_BadHeaderFatal ==
    (impl = "Conn" /\ writes = <<V1BadSrc, Ping>> /\ callers \subseteq {1}
        /\ ~timedOut) =>
        (delivered = <<>> /\ readRets \subseteq {"err"})

\* ------------------------------------------------------------------ C6
\* C6: once a decoding has failed after a signature matched and the calls
\* in progress have returned, the underlying connection is closed,
\* whichever of Read, RemoteAddr and Accept ran the codec.
C6_ClosedOnFatal == (HasFatal /\ Quiet) => closed

\* ------------------------------------------------------------------ C7
\* C7: a RemoteAddr call that returns after a decoding has failed fatally
\* returns the peer address of the underlying connection.
C7_PeerAfterFatal ==
    \A x \in addrs :
        (\E i \in 1..x.n : FatalAt(i)) => x.addr = PeerAddr

\* ------------------------------------------------------------------ C8
\* C8: when the peer sends fewer bytes than a signature and closes, Accept
\* and the detection report no error, RemoteAddr returns the peer address
\* and the Reads deliver exactly the bytes sent and then the end of stream.
C8_ShortStreamNoHeader ==
    (writes \in {<<Pro>>, <<Sig2Cut>>} /\ peerClosed) =>
        /\ acc # "failed"
        /\ \A i \in 1..Len(decodes) : decodes[i].st = "nohdr"
        /\ AddrsSeen \subseteq {PeerAddr}
        /\ Delivers(wire)

\* ------------------------------------------------------------------ C9
\* C9 (as amended): on a Conn whose stream is a v2 LOCAL header that has
\* arrived before the header timeout passes, and then payload, the header
\* is consumed, RemoteAddr returns the peer address and the Reads deliver
\* exactly the payload.
C9_LocalInTime ==
    (impl = "Conn" /\ writes = <<V2Local, Ping>> /\ ~timedOut) =>
        /\ \A i \in 1..Len(decodes) : decodes[i].st = "ok"
        /\ header # Nil => header.Command = "LOCAL"
        /\ AddrsSeen \subseteq {PeerAddr}
        /\ Delivers(Ping)

\* C9 as stated: the same whenever the header's bytes arrive.
C9_AsStated ==
    (impl = "Conn" /\ writes = <<V2Local, Ping>>) =>
        /\ AddrsSeen \subseteq {PeerAddr}
        /\ Delivers(Ping)

\* a LOCAL header decoded by a Read, the peer address returned afterwards
\* and the whole payload read
C9_Witness ==
    /\ impl = "Conn" /\ writes = <<V2Local, Ping>> /\ ~timedOut
    /\ decodes = <<Decode("Read", "ok", TRUE)>>
    /\ header # Nil
    /\ AddrsSeen = {PeerAddr}
    /\ delivered = Ping
    /\ "eof" \in readRets

\* ----------------------------------------------------------------- C10
\* C10: Accept returns the wrapper without a read or peek of the
\* connection: while neither Read nor RemoteAddr has been called on an
\* accepted connection the codec has not run and no byte has been read.
C10_DecodeDeferred ==
    (acc = "returned" /\ callers = {}) => (decodes = <<>> /\ rd = 0)

\* ----------------------------------------------------------------- C11
\* C11: while every decoding on the connection has ended with "no header",
\* the wrapper has written no log message and has not closed the
\* underlying connection.
C11_NoHeaderIsQuiet ==
    (\A i \in 1..Len(decodes) : decodes[i].st = "nohdr") =>
        (logs = {} /\ ~closed)

\* ----------------------------------------------------------------- C12
\* C12: on a Conn of a Listener whose ProxyHeaderTimeout is zero the
\* decoding never gives up because time has passed, and when the stream
\* begins with a valid header RemoteAddr returns the header's source.
C12_ZeroMeansNoLimit ==
    (impl = "Conn" /\ ProxyHeaderTimeout = 0) =>
        /\ ~timedOut
        /\ \A c \in ValidCases : writes = c.w => AddrsSeen \subseteq {c.src}

\* ----------------------------------------------------------------- C13
\* C13: on a Conn with a header timeout configured, the step that starts
\* the decoding sets the read deadline and reads nothing, no byte is read
\* off the connection before or during the decoding without that deadline,
\* and the step that ends the decoding, whatever its outcome, leaves the
\* connection without a read deadline.
C13_DeadlineWindow ==
    [][(impl = "Conn" /\ ProxyHeaderTimeout # 0) =>
        /\ (once = "fresh" /\ once' = "running") =>
               (readDeadline' = "header" /\ rd' = rd)
        /\ (once # "done" /\ rd' # rd) => readDeadline = "header"
        /\ (once = "running" /\ once' = "done") => readDeadline' = "none"]_vars

\* a decoding under a configured timeout has ended, here by the timeout,
\* after a first write was read, and the deadline is gone
C13_Witness ==
    /\ impl = "Conn" /\ ProxyHeaderTimeout # 0
    /\ once = "done" /\ timedOut /\ rd > 0
    /\ readDeadline = "none"

\* ----------------------------------------------------------------- C14
\* C14: Write, Close, LocalAddr and the deadline setters can be called at
\* any moment on an accepted connection, decoding not begun, in progress or
\* done; each returns what the underlying connection returns (LocalAddr
\* its local address, also after a header naming a destination was parsed),
\* and none starts a decoding or changes what a decoding has read, stored
\* or returned.
C14_Passthrough ==
    /\ [](CanCall => (ENABLED Write /\ ENABLED Close /\ ENABLED LocalAddr
                      /\ ENABLED SetDeadline("caller")
                      /\ ENABLED SetReadDeadline("caller")
                      /\ ENABLED SetWriteDeadline("caller")))
    /\ [][io' # io =>
            /\ UNCHANGED <<once, pc, err, header, srcAddr, dstAddr, buf, rd,
                           decodes, addrs, delivered, readRets, logs>>
            /\ io'.op = "LocalAddr" => io'.ret = SockLocalAddr
            /\ io'.op # "LocalAddr" => io'.ret = connRet]_vars

\* LocalAddr called after a header naming the destination 2.2.2.2:20 was
\* parsed, a call before it
C14_Witness ==
    /\ writes = <<V1Good, Ping>> /\ decodes # <<>>
    /\ \A i \in 1..Len(decodes) : decodes[i].st = "ok"
    /\ (dstAddr # Nil \/ header # Nil)
    /\ io = [n |-> 2, op |-> "LocalAddr", ret |-> SockLocalAddr]

\* ----------------------------------------------------------------- C15
\* C15: after a valid v1 header every following byte is payload: when the
\* payload itself begins with "PROXY " it is delivered by Read unchanged,
\* is not parsed, does not change what RemoteAddr returns, and causes no
\* error and no close.
C15_OneHeader ==
    (writes = <<V1Good, V1BadDst, Ping>> /\ ~timedOut) =>
        /\ AddrsSeen \subseteq {TCPAddr(<<1, 1, 1, 1>>, 10)}
        /\ Delivers(V1BadDst \o Ping)
        /\ Len(decodes) <= 1
        /\ ~HasFatal /\ ~closed

\* ----------------------------------------------------------------- C16
\* C16: both ports of a v1 header lie in 0..65535: a line whose source or
\* destination port is negative or above 65535 fails fatally, closing the
\* connection and recording no address, so no address RemoteAddr returns
\* has a port outside 0..65535.
C16_PortsInRange ==
    /\ \A a \in AddrsSeen : a.Port \in 0..65535
    /\ (writes \in {<<V1BigPort, Ping>>, <<V1NegPort, Ping>>} /\ decodes # <<>>) =>
            /\ FatalAt(1) /\ closed
            /\ srcAddr = Nil /\ dstAddr = Nil

\* ----------------------------------------------------------------- C17
\* C17: the IP literals of a v1 header are of the family its transport
\* token names: "::1" under TCP4, or "1.1.1.1" under TCP6, fails fatally
\* and is never taken as the client address.
C17_FamilyMatches ==
    (writes \in {<<V1Lit6, Ping>>, <<V1Lit4, Ping>>} /\ decodes # <<>>) =>
        /\ FatalAt(1) /\ closed
        /\ srcAddr = Nil
        /\ AddrsSeen \subseteq {PeerAddr}

\* ----------------------------------------------------------------- C18
\* C18: a v1 line ends in CRLF and its fields are the bytes before the
\* CRLF: a line that ends in a bare LF is rejected, never accepted with
\* the last character of its last field ("20", read as "2") dropped.
C18_CRLFRequired ==
    (writes = <<V1BareLF, Ping>> /\ decodes # <<>>) =>
        /\ FatalAt(1) /\ closed
        /\ dstAddr = Nil

\* ----------------------------------------------------------------- C19
\* C19: once "PROXY " has matched, protocol.go's decoding is committed: a
\* stream that ends before the line terminator, a line of five or of
\* seven fields, and a line whose address type is neither TCP4 nor TCP6
\* each end the decoding in a fatal error with the signature matched,
\* never in "no header", and leave srcAddr and dstAddr unset: Accept
\* fails and RemoteAddr is never answered from such a line.
C19_CommittedAfterSignature ==
    (/\ writes \in {<<V1Short>>, <<V1Five, Ping>>, <<V1Seven, Ping>>, <<V1Udp, Ping>>}
     /\ decodes # <<>>) =>
        /\ decodes = <<Decode("Accept", "fatal", TRUE)>>
        /\ closed
        /\ srcAddr = Nil /\ dstAddr = Nil
        /\ acc # "returned"
        /\ addrs = {}

\* Accept has failed on a line of seven fields, and on no other ground
C19_Witness ==
    /\ writes = <<V1Seven, Ping>>
    /\ acc = "failed"
    /\ decodes = <<Decode("Accept", "fatal", TRUE)>>
    /\ closed /\ srcAddr = Nil

\* ----------------------------------------------------------------- C20
\* C20: with several goroutines in Listener.Accept at once, what the
\* helper of each raw connection sends (the conn or its error) is returned
\* by at most one Accept call and never twice, and for no connection the
\* underlying listener did not hand out; once every Accept call has
\* returned, every raw connection handed out has been returned exactly
\* once and no helper goroutine is left running or blocked on p.connc.
C20_EachRawcOnce ==
    /\ \A h \in 1..MaxRaw :
        /\ Len(returned[h]) <= 1
        /\ h > listener.accepted => (returned[h] = <<>> /\ helper[h].st = "none")
        /\ returned[h] # <<>> => (returned[h][1].v = helper[h].v /\ helper[h].st = "done")
        /\ helper[h].st = "done" => returned[h] # <<>>
    /\ (\A a \in Callers : apc[a] = "idle") =>
        \A h \in 1..listener.accepted :
            helper[h].st = "done" /\ Len(returned[h]) = 1

\* every call has returned after two raw connections were accepted by
\* overlapping calls: one came back as a conn and one as an error, and one
\* of them from the call of another goroutine than the one that accepted it
C20_Witness ==
    /\ \A a \in Callers : apc[a] = "idle"
    /\ listener.accepted >= 2
    /\ \E h, k \in 1..listener.accepted :
        /\ returned[h] # <<>> /\ returned[h][1].v = "conn"
        /\ returned[k] # <<>> /\ returned[k][1].v = "err"
        /\ returned[h][1].by # helper[h].by

\* ----------------------------------------------------------------- C21
\* C21: a read deadline the caller set (SetReadDeadline or SetDeadline)
\* before the first Read or RemoteAddr outlives the header decoding: no
\* step of Read or RemoteAddr, the one that starts the decoding included,
\* replaces or clears it; only another call of the caller changes it.
C21_CallerDeadlineKept ==
    [][(/\ readDeadline = "caller"
        /\ once = "fresh"
        /\ \A g \in Callers : pc[g] = "idle"
        /\ io' = io) => readDeadline' = "caller"]_vars

====
